---- MODULE Spec2Model ----
(***************************************************************************)
(* Todo app: the List Controller of client/src/App.jsx (React component    *)
(* state todos / newTitle / loading / error / filter and its async         *)
(* handlers), the HTTP helpers of client/src/services/api.js, and the      *)
(* Store Gateway mounted at /api/todos by server/index.js.                 *)
(*                                                                         *)
(* Every async handler is split at its await: the part before the await is *)
(* one action (it sends the request), the gateway serving the request is   *)
(* one action, and the continuation after the await (try / catch / finally *)
(* up to the next await or the end) is one action.  JavaScript runs each   *)
(* of these pieces to completion, so each is atomic.                       *)
(***************************************************************************)
EXTENDS Integers, Sequences, FiniteSets, TLC

(* ---------------------------- bounds ---------------------------------- *)
MaxInit == 2          \* most items in the store before the page is opened
MaxOps == 3           \* most requests-sending handler invocations in a run
MaxCalls == 2         \* most requests made of the gateway directly in a run
MaxCallId == 2        \* largest id a direct request names

(* ---------------------------- values ---------------------------------- *)
\* Texts the input field takes: empty, whitespace only, and one that trim()
\* shortens at both ends while keeping its inner space.
Titles == {<<>>, <<" ">>, <<" ", "a", " ", "b", " ">>}

NoError == "null"
ErrLoad == "Failed to load todos. Is the server running?"
ErrAdd == "Failed to add todo"
ErrUpdate == "Failed to update todo"
ErrDelete == "Failed to delete todo"

Filters == {"all", "active", "completed"}

Item(i, t, c) == [id |-> i, title |-> t, completed |-> c]

(* ------------------------ pure helpers -------------------------------- *)
RECURSIVE TrimStart(_)
TrimStart(s) ==
    IF s = <<>> THEN s
    ELSE IF Head(s) = " " THEN TrimStart(Tail(s)) ELSE s

RECURSIVE TrimEnd(_)
TrimEnd(s) ==
    IF s = <<>> THEN s
    ELSE IF s[Len(s)] = " " THEN TrimEnd(SubSeq(s, 1, Len(s) - 1)) ELSE s

Trim(s) == TrimEnd(TrimStart(s))

\* IsBlank without the trim: only the empty string is refused.
IsBlankNoTrim(s) == s = <<>>

\* !newTitle.trim()
IsBlank(s) == Trim(s) = <<>>

RemoveAt(s, i) == SubSeq(s, 1, i - 1) \o SubSeq(s, i + 1, Len(s))

\* todos.filter(t => !t.completed) / todos.filter(t => t.completed)
RECURSIVE FilterCompleted(_, _)
FilterCompleted(ts, c) ==
    IF ts = <<>> THEN <<>>
    ELSE IF Head(ts).completed = c
         THEN <<Head(ts)>> \o FilterCompleted(Tail(ts), c)
         ELSE FilterCompleted(Tail(ts), c)

\* PendingCount without the filter: every todo is counted.
PendingCountAll(ts) == Len(ts)

PendingCount(ts) == Len(FilterCompleted(ts, FALSE))

\* ShownTodos with the two filter predicates exchanged.
ShownTodosSwapped(ts, f) ==
    IF f = "active" THEN FilterCompleted(ts, TRUE)
    ELSE IF f = "completed" THEN FilterCompleted(ts, FALSE)
    ELSE ts

ShownTodos(ts, f) ==
    IF f = "active" THEN FilterCompleted(ts, FALSE)
    ELSE IF f = "completed" THEN FilterCompleted(ts, TRUE)
    ELSE ts

\* ErrMsg of a catch that forgets setError.
ErrMsgNone(kind) == NoError

\* The message each handler's catch passes to setError.
ErrMsg(kind) ==
    IF kind = "load" THEN ErrLoad
    ELSE IF kind = "add" THEN ErrAdd
    ELSE IF kind = "toggle" THEN ErrUpdate
    ELSE ErrDelete

\* LoadReconcile that drops the fetched data.
LoadReconcileKeep(prev, data) == prev

\* setTodos(data)
LoadReconcile(prev, data) == data

\* AddReconcile that appends instead of prepending.
AddReconcileAppend(prev, created) == prev \o <<created>>

\* setTodos(prev => [created, ...prev])
AddReconcile(prev, created) == <<created>> \o prev

\* ToggleReconcile that moves the updated item to the front.
ToggleReconcileFront(prev, updated) ==
    <<updated>> \o SelectSeq(prev, LAMBDA t : t.id # updated.id)

\* ToggleReconcile whose map has lost its id test.
ToggleReconcileAll(prev, updated) == [k \in 1..Len(prev) |-> updated]

\* setTodos(prev => prev.map(t => (t._id === updated._id ? updated : t)))
ToggleReconcile(prev, updated) ==
    [k \in 1..Len(prev) |-> IF prev[k].id = updated.id THEN updated ELSE prev[k]]

\* RemoveReconcile that drops the first row instead of the row with the id.
RemoveReconcileFirst(prev, id) == IF prev = <<>> THEN <<>> ELSE Tail(prev)

\* setTodos(prev => prev.filter(t => t._id !== id))
RECURSIVE RemoveReconcile(_, _)
RemoveReconcile(prev, id) ==
    IF prev = <<>> THEN <<>>
    ELSE IF Head(prev).id # id
         THEN <<Head(prev)>> \o RemoveReconcile(Tail(prev), id)
         ELSE RemoveReconcile(Tail(prev), id)

\* setTodos(prev => prev.filter(t => !t.completed))
ClearReconcile(prev) == FilterCompleted(prev, FALSE)

\* const completed = todos.filter(t => t.completed), kept as the ids the
\* loop passes to deleteTodo
ClearSnapshot(ts) ==
    LET cs == FilterCompleted(ts, TRUE) IN [k \in 1..Len(cs) |-> cs[k].id]

Ids(ts) == {ts[k].id : k \in 1..Len(ts)}
Range(s) == {s[k] : k \in 1..Len(s)}

(* ------------------------ Store Gateway ------------------------------- *)
\* Each operation returns the status, the collection afterwards and the
\* response body (a sequence of items).
GwList(st) == [status |-> "ok", store |-> st, resp |-> st]

\* GwCreate that numbers the new item by the size of the collection.
GwCreateCountId(st, nid, title) ==
    IF IsBlank(title)
    THEN [status |-> "ValidationError", store |-> st, resp |-> <<>>]
    ELSE LET it == Item(Len(st) + 1, title, FALSE)
         IN [status |-> "ok", store |-> Append(st, it), resp |-> <<it>>]

GwCreate(st, nid, title) ==
    IF IsBlank(title)
    THEN [status |-> "ValidationError", store |-> st, resp |-> <<>>]
    ELSE LET it == Item(nid, title, FALSE)
         IN [status |-> "ok", store |-> Append(st, it), resp |-> <<it>>]

GwUpdate(st, id, c) ==
    IF id \notin Ids(st)
    THEN [status |-> "NotFound", store |-> st, resp |-> <<>>]
    ELSE LET k == CHOOSE j \in 1..Len(st) : st[j].id = id
             it == [st[k] EXCEPT !.completed = c]
         IN [status |-> "ok", store |-> [st EXCEPT ![k] = it], resp |-> <<it>>]

\* GwDelete that reports success when nothing matches the id.
GwDeleteSilent(st, id) ==
    IF id \notin Ids(st)
    THEN [status |-> "ok", store |-> st, resp |-> <<>>]
    ELSE LET k == CHOOSE j \in 1..Len(st) : st[j].id = id
         IN [status |-> "ok", store |-> RemoveAt(st, k), resp |-> <<st[k]>>]

GwDelete(st, id) ==
    IF id \notin Ids(st)
    THEN [status |-> "NotFound", store |-> st, resp |-> <<>>]
    ELSE LET k == CHOOSE j \in 1..Len(st) : st[j].id = id
         IN [status |-> "ok", store |-> RemoveAt(st, k), resp |-> <<st[k]>>]

(* ---------------------------- state ----------------------------------- *)
VARIABLES
    store,      \* the gateway's collection, in store-native order
    nextId,     \* the next id the store assigns
    mounted,    \* the mount effect has run
    todos, newTitle, loading, error, filter,   \* the component's useState cells
    inflight,   \* handler invocations suspended at an await, oldest first
    sent,       \* how many handler invocations have sent a request
    last,       \* what the most recent step was
    hist        \* what has happened so far: load succeeded, a request failed,
                \* ids returned by Create, ids whose Remove or sweep was reconciled

vars == <<store, nextId, mounted, todos, newTitle, loading, error, filter,
          inflight, sent, last, hist>>

client == <<todos, newTitle, loading, error, filter>>

\* One suspended handler invocation.  st is the state of the request it
\* awaits: "sent", "ok", or the error it will throw.
\* For a sweep, snap is the snapshot of completed ids, queue what is left of
\* it (its head is the Delete being awaited) and issued the ids whose Delete
\* has been sent so far.
Op(kind, id, val, title, snap) ==
    [kind |-> kind, st |-> "sent", id |-> id, val |-> val, title |-> title,
     snap |-> snap, queue |-> snap, resp |-> <<>>,
     issued |-> IF snap = <<>> THEN <<>> ELSE <<Head(snap)>>,
     late |-> FALSE]

\* History kept in the suspended invocations: a Toggle is marked late when
\* a successful Remove of its item, or a sweep whose snapshot holds its
\* item, is reconciled while the Toggle is still suspended.
MarkLate(fl, S) ==
    [k \in 1..Len(fl) |->
        IF fl[k].kind = "toggle" /\ fl[k].id \in S
        THEN [fl[k] EXCEPT !.late = TRUE] ELSE fl[k]]

\* Label of the step just taken.  A handler's own steps carry the handler's
\* name; a step that runs no handler code of App.jsx (an onChange/onClick
\* state setter, a step of the gateway) carries "other".
Step(kind, ok, idx, id) == [kind |-> kind, ok |-> ok, idx |-> idx, id |-> id]

InitStores ==
    UNION {{[k \in 1..n |-> Item(k, <<"a">>, c[k])] : c \in [1..n -> BOOLEAN]}
           : n \in 0..MaxInit}

Init ==
    /\ store \in InitStores
    /\ nextId = Len(store) + 1
    /\ mounted = FALSE
    /\ todos = <<>>
    /\ newTitle = <<>>
    /\ loading = FALSE
    /\ error = NoError
    /\ filter = "all"
    /\ inflight = <<>>
    /\ sent = 0
    /\ last = Step("init", TRUE, 0, 0)
    /\ hist = [loaded |-> FALSE, failed |-> FALSE, created |-> {}, removed |-> {}]

(* ------------------------- client: UI events -------------------------- *)
\* useEffect(..., []): setLoading(true); setError(null); await fetchTodos()
LoadStart ==
    /\ ~mounted
    /\ mounted' = TRUE
    /\ loading' = TRUE
    /\ error' = NoError
    /\ inflight' = Append(inflight, Op("load", 0, FALSE, <<>>, <<>>))
    /\ last' = Step("loadStart", TRUE, Len(inflight) + 1, 0)
    /\ sent' = sent + 1
    /\ UNCHANGED <<store, nextId, todos, newTitle, filter, hist>>

\* onChange={(e) => setNewTitle(e.target.value)}
SetNewTitle(t) ==
    /\ mounted
    /\ t # newTitle
    /\ newTitle' = t
    /\ last' = Step("other", TRUE, 0, 0)
    /\ UNCHANGED <<sent, store, nextId, mounted, todos, loading, error, filter,
                   inflight, hist>>

\* onClick={() => setFilter(...)}
SetFilter(f) ==
    /\ mounted
    /\ f # filter
    /\ filter' = f
    /\ last' = Step("other", TRUE, 0, 0)
    /\ UNCHANGED <<sent, store, nextId, mounted, todos, newTitle, loading, error,
                   inflight, hist>>

\* handleAdd up to its await.  The submit button is disabled while loading
\* or while the title is blank, so a submit with a non-blank title happens
\* only when loading is false; a submit with a blank title reaches only the
\* handler's own early return.
HandleAdd ==
    /\ mounted
    /\ IF IsBlank(newTitle)
       THEN /\ last' = Step("addBlank", TRUE, 0, 0)
            /\ UNCHANGED <<sent, store, nextId, mounted, client, inflight, hist>>
       ELSE /\ ~loading
            /\ sent < MaxOps
            /\ loading' = TRUE
            /\ error' = NoError
            /\ inflight' = Append(inflight,
                                  Op("add", 0, FALSE, Trim(newTitle), <<>>))
            /\ last' = Step("addStart", TRUE, Len(inflight) + 1, 0)
            /\ sent' = sent + 1
            /\ UNCHANGED <<store, nextId, mounted, todos, newTitle, filter, hist>>

\* ToggleCompleted without its setError(null).
ToggleCompletedKeepsError(k) ==
    /\ mounted
    /\ sent < MaxOps
    /\ k \in 1..Len(ShownTodos(todos, filter))
    /\ LET todo == ShownTodos(todos, filter)[k] IN
        /\ loading' = TRUE
        /\ inflight' = Append(inflight,
                              Op("toggle", todo.id, ~todo.completed, <<>>, <<>>))
        /\ last' = Step("toggleStart", TRUE, Len(inflight) + 1, todo.id)
    /\ sent' = sent + 1
    /\ UNCHANGED <<store, nextId, mounted, todos, newTitle, error, filter, hist>>

\* toggleCompleted(todo) up to its await; todo is a row of shownTodos.
ToggleCompleted(k) ==
    /\ mounted
    /\ sent < MaxOps
    /\ k \in 1..Len(ShownTodos(todos, filter))
    /\ LET todo == ShownTodos(todos, filter)[k] IN
        /\ loading' = TRUE
        /\ error' = NoError
        /\ inflight' = Append(inflight,
                              Op("toggle", todo.id, ~todo.completed, <<>>, <<>>))
        /\ last' = Step("toggleStart", TRUE, Len(inflight) + 1, todo.id)
    /\ sent' = sent + 1
    /\ UNCHANGED <<store, nextId, mounted, todos, newTitle, filter, hist>>

\* removeTodo(todo._id) up to its await; the button is disabled while loading.
RemoveTodo(k) ==
    /\ mounted
    /\ ~loading
    /\ sent < MaxOps
    /\ k \in 1..Len(ShownTodos(todos, filter))
    /\ LET todo == ShownTodos(todos, filter)[k] IN
        /\ loading' = TRUE
        /\ error' = NoError
        /\ inflight' = Append(inflight, Op("remove", todo.id, FALSE, <<>>, <<>>))
        /\ last' = Step("removeStart", TRUE, Len(inflight) + 1, todo.id)
    /\ sent' = sent + 1
    /\ UNCHANGED <<store, nextId, mounted, todos, newTitle, filter, hist>>

\* clearCompleted up to its first await; the button is disabled while
\* loading or while no todo is completed, so a sweep with a non-empty
\* snapshot starts only when loading is false; an invocation with no
\* completed todo reaches only the handler's own early return.
ClearCompleted ==
    /\ mounted
    /\ IF ClearSnapshot(todos) = <<>>
       THEN /\ last' = Step("clearEmpty", TRUE, 0, 0)
            /\ UNCHANGED <<sent, store, nextId, mounted, client, inflight, hist>>
       ELSE /\ ~loading
            /\ sent < MaxOps
            /\ loading' = TRUE
            /\ error' = NoError
            /\ inflight' = Append(inflight,
                                  Op("clear", 0, FALSE, <<>>, ClearSnapshot(todos)))
            /\ last' = Step("clearStart", TRUE, Len(inflight) + 1, 0)
            /\ sent' = sent + 1
            /\ UNCHANGED <<store, nextId, mounted, todos, newTitle, filter, hist>>

(* ------------------------- gateway serving ---------------------------- *)
GwResult(op) ==
    IF op.kind = "load" THEN GwList(store)
    ELSE IF op.kind = "add" THEN GwCreate(store, nextId, op.title)
    ELSE IF op.kind = "toggle" THEN GwUpdate(store, op.id, op.val)
    ELSE IF op.kind = "remove" THEN GwDelete(store, op.id)
    ELSE GwDelete(store, Head(op.queue))

\* axios request served by the gateway: the promise will resolve with
\* res.data, or reject on a non-2xx status.
Serve(i) ==
    /\ i \in 1..Len(inflight)
    /\ inflight[i].st = "sent"
    /\ LET op == inflight[i]
           r == GwResult(op)
       IN /\ store' = r.store
          /\ nextId' = IF op.kind = "add" /\ r.status = "ok"
                       THEN nextId + 1 ELSE nextId
          /\ inflight' = [inflight EXCEPT ![i].st = r.status, ![i].resp = r.resp]
          /\ last' = Step("other", TRUE, 0, 0)
          /\ hist' = [hist EXCEPT !.failed = @ \/ r.status # "ok",
                                   !.created = IF op.kind = "add" /\ r.status = "ok"
                                               THEN @ \cup {r.resp[1].id} ELSE @]
    /\ UNCHANGED <<sent, mounted, client>>

\* The request fails without reaching the collection (store unavailable,
\* network error): the promise will reject.
Fail(i) ==
    /\ i \in 1..Len(inflight)
    /\ inflight[i].st = "sent"
    /\ inflight' = [inflight EXCEPT ![i].st = "StoreUnavailable"]
    /\ last' = Step("other", TRUE, 0, 0)
    /\ hist' = [hist EXCEPT !.failed = TRUE]
    /\ UNCHANGED <<sent, store, nextId, mounted, client>>

(* --------------------- client: continuations -------------------------- *)
\* mount effect after await fetchTodos()
LoadAck(i) ==
    /\ i \in 1..Len(inflight)
    /\ inflight[i].kind = "load"
    /\ inflight[i].st # "sent"
    /\ LET op == inflight[i] IN
        /\ IF op.st = "ok"
           THEN todos' = LoadReconcile(todos, op.resp) /\ error' = error
           ELSE todos' = todos /\ error' = ErrMsg("load")
        /\ hist' = [hist EXCEPT !.loaded = @ \/ op.st = "ok"]
        /\ last' = Step("loadAck", op.st = "ok", i, 0)
    /\ loading' = FALSE
    /\ inflight' = RemoveAt(inflight, i)
    /\ UNCHANGED <<sent, store, nextId, mounted, newTitle, filter>>

\* handleAdd after await createTodo(...)
AddAck(i) ==
    /\ i \in 1..Len(inflight)
    /\ inflight[i].kind = "add"
    /\ inflight[i].st # "sent"
    /\ LET op == inflight[i] IN
        /\ IF op.st = "ok"
           THEN /\ todos' = AddReconcile(todos, op.resp[1])
                /\ newTitle' = <<>>
                /\ error' = error
           ELSE /\ todos' = todos
                /\ newTitle' = newTitle
                /\ error' = ErrMsg("add")
        /\ last' = Step("addAck", op.st = "ok", i, 0)
    /\ loading' = FALSE
    /\ inflight' = RemoveAt(inflight, i)
    /\ UNCHANGED <<sent, store, nextId, mounted, filter, hist>>

\* toggleCompleted after await updateTodo(...)
ToggleAck(i) ==
    /\ i \in 1..Len(inflight)
    /\ inflight[i].kind = "toggle"
    /\ inflight[i].st # "sent"
    /\ LET op == inflight[i] IN
        /\ IF op.st = "ok"
           THEN todos' = ToggleReconcile(todos, op.resp[1]) /\ error' = error
           ELSE todos' = todos /\ error' = ErrMsg("toggle")
        /\ last' = Step("toggleAck", op.st = "ok", i, op.id)
    /\ loading' = FALSE
    /\ inflight' = RemoveAt(inflight, i)
    /\ UNCHANGED <<sent, store, nextId, mounted, newTitle, filter, hist>>

\* removeTodo after await deleteTodo(id)
RemoveAck(i) ==
    /\ i \in 1..Len(inflight)
    /\ inflight[i].kind = "remove"
    /\ inflight[i].st # "sent"
    /\ LET op == inflight[i] IN
        /\ IF op.st = "ok"
           THEN todos' = RemoveReconcile(todos, op.id) /\ error' = error
           ELSE todos' = todos /\ error' = ErrMsg("remove")
        /\ last' = Step("removeAck", op.st = "ok", i, op.id)
        /\ hist' = [hist EXCEPT !.removed = IF op.st = "ok" THEN @ \cup {op.id} ELSE @]
        /\ inflight' = MarkLate(RemoveAt(inflight, i),
                                IF op.st = "ok" THEN {op.id} ELSE {})
    /\ loading' = FALSE
    /\ UNCHANGED <<sent, store, nextId, mounted, newTitle, filter>>

\* ClearNext whose loop is left at the first Delete that fails.
ClearNextAbort(i) ==
    /\ i \in 1..Len(inflight)
    /\ inflight[i].kind = "clear"
    /\ inflight[i].st # "sent"
    /\ Len(inflight[i].queue) > 1
    /\ IF inflight[i].st = "ok"
       THEN /\ inflight' = [inflight EXCEPT ![i].queue = Tail(@), ![i].st = "sent",
                                            ![i].resp = <<>>,
                                            ![i].issued = Append(@, inflight[i].queue[2])]
            /\ last' = Step("clearNext", TRUE, i, Head(inflight[i].queue))
            /\ UNCHANGED <<sent, store, nextId, mounted, client, hist>>
       ELSE /\ inflight' = RemoveAt(inflight, i)
            /\ loading' = FALSE
            /\ last' = Step("clearDone", FALSE, i, Head(inflight[i].queue))
            /\ UNCHANGED <<sent, store, nextId, mounted, todos, newTitle, error,
                           filter, hist>>

\* clearCompleted after one await deleteTodo(t._id), resolved or rejected
\* (the inner catch is empty), when more of the snapshot remains: the loop
\* sends the next Delete.
ClearNext(i) ==
    /\ i \in 1..Len(inflight)
    /\ inflight[i].kind = "clear"
    /\ inflight[i].st # "sent"
    /\ Len(inflight[i].queue) > 1
    /\ inflight' = [inflight EXCEPT ![i].queue = Tail(@), ![i].st = "sent",
                                    ![i].resp = <<>>,
                                    ![i].issued = Append(@, inflight[i].queue[2])]
    /\ last' = Step("clearNext", inflight[i].st = "ok", i, Head(inflight[i].queue))
    /\ UNCHANGED <<sent, store, nextId, mounted, client, hist>>

\* ClearDone whose last Delete, when it fails, reaches a catch with setError.
ClearDoneSetsError(i) ==
    /\ i \in 1..Len(inflight)
    /\ inflight[i].kind = "clear"
    /\ inflight[i].st # "sent"
    /\ Len(inflight[i].queue) = 1
    /\ todos' = ClearReconcile(todos)
    /\ error' = IF inflight[i].st = "ok" THEN error ELSE ErrDelete
    /\ loading' = FALSE
    /\ inflight' = RemoveAt(inflight, i)
    /\ last' = Step("clearDone", inflight[i].st = "ok", i, Head(inflight[i].queue))
    /\ hist' = [hist EXCEPT !.removed = @ \cup Range(inflight[i].snap)]
    /\ UNCHANGED <<sent, store, nextId, mounted, newTitle, filter>>

\* clearCompleted after its last await: the loop ends, setTodos, finally.
ClearDone(i) ==
    /\ i \in 1..Len(inflight)
    /\ inflight[i].kind = "clear"
    /\ inflight[i].st # "sent"
    /\ Len(inflight[i].queue) = 1
    /\ todos' = ClearReconcile(todos)
    /\ loading' = FALSE
    /\ inflight' = MarkLate(RemoveAt(inflight, i), Range(inflight[i].snap))
    /\ last' = Step("clearDone", inflight[i].st = "ok", i, Head(inflight[i].queue))
    /\ hist' = [hist EXCEPT !.removed = @ \cup Range(inflight[i].snap)]
    /\ UNCHANGED <<sent, store, nextId, mounted, newTitle, error, filter>>

Next ==
    \/ LoadStart
    \/ \E t \in Titles : SetNewTitle(t)
    \/ \E f \in Filters : SetFilter(f)
    \/ HandleAdd
    \/ \E k \in 1..(MaxInit + MaxOps) : ToggleCompleted(k)
    \/ \E k \in 1..(MaxInit + MaxOps) : RemoveTodo(k)
    \/ ClearCompleted
    \/ \E i \in 1..MaxOps : Serve(i)
    \/ \E i \in 1..MaxOps : Fail(i)
    \/ \E i \in 1..MaxOps : LoadAck(i)
    \/ \E i \in 1..MaxOps : AddAck(i)
    \/ \E i \in 1..MaxOps : ToggleAck(i)
    \/ \E i \in 1..MaxOps : RemoveAck(i)
    \/ \E i \in 1..MaxOps : ClearNext(i)
    \/ \E i \in 1..MaxOps : ClearDone(i)

Spec == Init /\ [][Next]_vars

(* ------------------ the page after its initial load ------------------- *)
\* The state the mount effect leaves when fetchTodos() has succeeded:
\* todos holds the store's list and nothing is suspended.  sent counts the
\* requests-sending handler invocations made from here on.
InitLoaded ==
    /\ store \in InitStores
    /\ nextId = Len(store) + 1
    /\ mounted = TRUE
    /\ todos = LoadReconcile(<<>>, GwList(store).resp)
    /\ newTitle = <<>>
    /\ loading = FALSE
    /\ error = NoError
    /\ filter = "all"
    /\ inflight = <<>>
    /\ sent = 0
    /\ last = Step("loadAck", TRUE, 1, 0)
    /\ hist = [loaded |-> TRUE, failed |-> FALSE, created |-> {}, removed |-> {}]

\* The mount effect runs once, so after it only the handlers, the state
\* setters and the gateway take steps.
NextLoaded ==
    \/ \E t \in Titles : SetNewTitle(t)
    \/ \E f \in Filters : SetFilter(f)
    \/ HandleAdd
    \/ \E k \in 1..(MaxInit + MaxOps) : ToggleCompleted(k)
    \/ \E k \in 1..(MaxInit + MaxOps) : RemoveTodo(k)
    \/ ClearCompleted
    \/ \E i \in 1..MaxOps : Serve(i)
    \/ \E i \in 1..MaxOps : Fail(i)
    \/ \E i \in 1..MaxOps : AddAck(i)
    \/ \E i \in 1..MaxOps : ToggleAck(i)
    \/ \E i \in 1..MaxOps : RemoveAck(i)
    \/ \E i \in 1..MaxOps : ClearNext(i)
    \/ \E i \in 1..MaxOps : ClearDone(i)

SpecLoaded == InitLoaded /\ [][NextLoaded]_vars

(* ------------------- the gateway called directly ---------------------- *)
\* The four helpers of services/api.js called by any client, in any order.
\* A helper sends its request and is suspended at its await: the call step
\* only adds the outstanding request to inflight.  The gateway answers an
\* outstanding request in a later step (Serve, Fail), in any order, and
\* the answer resolves or rejects the helper's promise; inflight keeps the
\* settled request with its response.
GwCall(label, op) ==
    /\ sent < MaxCalls
    /\ inflight' = Append(inflight, [op EXCEPT !.st = "sent"])
    /\ last' = Step(label, TRUE, Len(inflight) + 1, op.id)
    /\ sent' = sent + 1
    /\ UNCHANGED <<store, nextId, mounted, client, hist>>

\* fetchTodos(): GET /api/todos
CallList == GwCall("callList", Op("load", 0, FALSE, <<>>, <<>>))

\* createTodo({ title }): POST /api/todos
CallCreate(t) == GwCall("callCreate", Op("add", 0, FALSE, t, <<>>))

\* updateTodo(id, { completed }): PUT /api/todos/:id
CallUpdate(id, c) == GwCall("callUpdate", Op("toggle", id, c, <<>>, <<>>))

\* deleteTodo(id): DELETE /api/todos/:id
CallDelete(id) == GwCall("callDelete", Op("remove", id, FALSE, <<>>, <<>>))

\* ids a direct call may name
CallIds == 1..MaxCallId

NextGw ==
    \/ CallList
    \/ \E t \in Titles : CallCreate(t)
    \/ \E id \in CallIds, c \in BOOLEAN : CallUpdate(id, c)
    \/ \E id \in CallIds : CallDelete(id)
    \/ \E i \in 1..MaxCalls : Serve(i)
    \/ \E i \in 1..MaxCalls : Fail(i)

SpecGw == Init /\ [][NextGw]_vars

TypeOK ==
    /\ mounted \in BOOLEAN
    /\ loading \in BOOLEAN
    /\ error \in {NoError, ErrLoad, ErrAdd, ErrUpdate, ErrDelete}
    /\ filter \in Filters
    /\ newTitle \in Titles
    /\ sent \in 0..MaxOps
    /\ Len(inflight) <= sent
    /\ nextId <= MaxInit + MaxOps + 1

(* ===================== properties of the controller ===================== *)
\* prev without the items whose id is in S, order kept
WithoutIds(prev, S) == SelectSeq(prev, LAMBDA t : t.id \notin S)

\* The (id, completed) pairs of a list of items
IdStates(ts) == {<<ts[k].id, ts[k].completed>> : k \in 1..Len(ts)}

\* C1: when a clear-completed sweep finishes, the local list becomes the list
\* as it stood just before, minus exactly the items whose ids are in the
\* snapshot the sweep took when it was invoked, whatever happened to the
\* individual Deletes and whatever was acknowledged during the sweep.
C1_SweepRemovesSnapshot ==
    [][\A i \in 1..Len(inflight) :
         (last'.kind = "clearDone" /\ last'.idx = i)
            => todos' = WithoutIds(todos, Range(inflight[i].snap))]_vars

\* C2: once the initial load has succeeded, no request has failed and nothing
\* is in flight, the local list holds exactly the store's items: the same
\* ids, each with the same completed value.
C2_MirrorConverges ==
    (hist.loaded /\ ~hist.failed /\ inflight = <<>>)
        => IdStates(todos) = IdStates(store)

\* C3: loading (the pending flag) is true whenever some operation has been
\* sent and not yet reconciled.
C3_PendingWhileInFlight == (inflight # <<>>) => loading

(* ---------------------------------------------------------------------- *)
AllSpaces(s) == \A k \in 1..Len(s) : s[k] = " "
Spaces(n) == [k \in 1..n |-> " "]

\* t is s without its leading and trailing spaces
IsTrimOf(t, s) ==
    /\ t # <<>> => (t[1] # " " /\ t[Len(t)] # " ")
    /\ \E a, b \in 0..Len(s) : s = Spaces(a) \o t \o Spaces(b)

NotCompletedAt(ts) == {k \in 1..Len(ts) : ~ts[k].completed}
CompletedAt(ts) == {k \in 1..Len(ts) : ts[k].completed}

\* C4: the shown list is the subsequence of todos selected by the filter:
\* the not-completed ones under "active", the completed ones under
\* "completed", all of todos under "all", in the order of todos; the active
\* and the completed view partition todos.
C4_ShownItems ==
    LET shown == ShownTodos(todos, filter)
        act == ShownTodos(todos, "active")
        com == ShownTodos(todos, "completed")
    IN /\ filter = "active" => shown = SelectSeq(todos, LAMBDA t : ~t.completed)
       /\ filter = "completed" => shown = SelectSeq(todos, LAMBDA t : t.completed)
       /\ filter = "all" => shown = todos
       /\ Len(act) + Len(com) = Len(todos)
       /\ \A k \in 1..Len(todos) :
             /\ todos[k] \in Range(act) <=> ~todos[k].completed
             /\ todos[k] \in Range(com) <=> todos[k].completed

\* C4 case: a filtered view that drops an item standing before a kept one.
C4_Witness ==
    /\ filter = "active"
    /\ Len(todos) >= 2
    /\ todos[1].completed /\ ~todos[2].completed
    /\ last.kind = "other"

\* C5: pendingCount is the number of todos with completed = false, and with
\* the number of completed todos it adds up to the length of the list.
C5_PendingCount ==
    /\ PendingCount(todos) = Cardinality(NotCompletedAt(todos))
    /\ PendingCount(todos) + Cardinality(CompletedAt(todos)) = Len(todos)

\* C5 case: a reconciliation has just changed a list holding both kinds.
C5_Witness ==
    /\ last.kind = "toggleAck" /\ last.ok
    /\ NotCompletedAt(todos) # {}
    /\ CompletedAt(todos) # {}

\* C6: a successful Add puts the item the gateway returned in front of the
\* previous list, which is otherwise unchanged; the new item has the trimmed
\* title that was sent and completed = false; newTitle becomes empty.  The
\* title sent is the trim of the input at the time of the submit.
C6_AddPrepends ==
    [][\A i \in 1..Len(inflight') \cup 1..Len(inflight) :
        /\ (last'.kind = "addAck" /\ last'.ok /\ last'.idx = i) =>
              /\ Len(todos') = Len(todos) + 1
              /\ todos'[1] = inflight[i].resp[1]
              /\ SubSeq(todos', 2, Len(todos')) = todos
              /\ todos'[1].title = inflight[i].title
              /\ todos'[1].completed = FALSE
              /\ newTitle' = <<>>
        /\ (last'.kind = "addStart" /\ last'.idx = i) =>
              /\ inflight'[i].title # <<>>
              /\ IsTrimOf(inflight'[i].title, newTitle)]_vars

\* C6 case: an Add succeeded on a list that already held items.
C6_Witness ==
    /\ last.kind = "addAck" /\ last.ok
    /\ Len(todos) >= 2
    /\ todos[1].title = <<"a", " ", "b">>

\* C7: a submit while the input is empty or holds only whitespace sends no
\* request and leaves todos, loading, error, filter and newTitle unchanged.
C7_BlankAddNoOp ==
    [][(last'.kind \in {"addBlank", "addStart"} /\ AllSpaces(newTitle))
          => UNCHANGED <<todos, loading, error, filter, newTitle, inflight,
                         sent, store>>]_vars

\* C7 case: a submit of a whitespace-only title, with the list loaded.
C7_Witness ==
    /\ last.kind = "addBlank"
    /\ newTitle = <<" ">>
    /\ todos # <<>>

\* C8: when an Add, Toggle or Remove request fails, its reconciliation
\* leaves todos as it was, sets error to that operation's message, sets
\* loading to false and ends the handler (it is no longer in flight).
C8_FailureKeepsItems ==
    [][(last'.kind \in {"addAck", "toggleAck", "removeAck"} /\ ~last'.ok) =>
          /\ todos' = todos
          /\ error' # NoError
          /\ error' = (IF last'.kind = "addAck" THEN "Failed to add todo"
                       ELSE IF last'.kind = "toggleAck" THEN "Failed to update todo"
                       ELSE "Failed to delete todo")
          /\ loading' = FALSE
          /\ Len(inflight') = Len(inflight) - 1
          /\ mounted']_vars

\* C8 case: a Remove failed and its item is still listed.
C8_Witness ==
    /\ last.kind = "removeAck" /\ ~last.ok
    /\ last.id \in Ids(todos)
    /\ error = ErrDelete
    /\ ~loading

\* C9: the initial load sets loading and clears error before its request;
\* a failed fetch leaves todos as it was (empty), sets a non-empty error and
\* loading = false; a successful one replaces todos by the returned
\* sequence, leaves error empty and sets loading = false.
C9_InitialLoad ==
    [][\A i \in 1..Len(inflight') \cup 1..Len(inflight) :
        /\ (last'.kind = "loadStart" /\ last'.idx = i) =>
              /\ loading' /\ error' = NoError
              /\ inflight'[i].kind = "load" /\ inflight'[i].st = "sent"
        /\ (last'.kind = "loadAck" /\ ~last'.ok /\ last'.idx = i) =>
              /\ todos' = todos /\ todos' = <<>>
              /\ error' # NoError
              /\ ~loading'
        /\ (last'.kind = "loadAck" /\ last'.ok /\ last'.idx = i) =>
              /\ todos' = inflight[i].resp
              /\ error' = NoError
              /\ ~loading']_vars

\* C9 case: the fetch failed although the store holds items.
C9_Witness ==
    /\ last.kind = "loadAck" /\ ~last.ok
    /\ store # <<>>
    /\ todos = <<>>
    /\ error = ErrLoad

\* C10: a successful Toggle replaces the local item with the returned
\* item's id by the returned item, in place; length, order of ids and all
\* other items are unchanged, and so is the whole list when no local item
\* has that id.  The Update sent carries the negation of the completed
\* value of the item the handler was invoked with.
C10_ToggleInPlace ==
    [][\A i \in 1..Len(inflight') \cup 1..Len(inflight) :
        /\ (last'.kind = "toggleAck" /\ last'.ok /\ last'.idx = i) =>
              LET updated == inflight[i].resp[1] IN
              /\ Len(todos') = Len(todos)
              /\ \A k \in 1..Len(todos) :
                    /\ todos'[k].id = todos[k].id
                    /\ todos'[k] = (IF todos[k].id = updated.id
                                    THEN updated ELSE todos[k])
              /\ updated.id \notin Ids(todos) => todos' = todos
        /\ (last'.kind = "toggleStart" /\ last'.idx = i) =>
              /\ inflight'[i].id \in Ids(ShownTodos(todos, filter))
              /\ \A k \in 1..Len(todos) :
                    todos[k].id = inflight'[i].id
                        => inflight'[i].val = ~todos[k].completed]_vars

\* C10 case: a Toggle succeeded on an item that is not first in the list.
C10_Witness ==
    /\ last.kind = "toggleAck" /\ last.ok
    /\ Len(todos) >= 2
    /\ todos[2].id = last.id

\* C11: a successful Remove of an id leaves no item with that id in the
\* local list; every other item stays, unchanged and in the same order.
C11_RemoveById ==
    [][(last'.kind = "removeAck" /\ last'.ok) =>
          /\ last'.id \notin Ids(todos')
          /\ todos' = SelectSeq(todos, LAMBDA t : t.id # last'.id)
          /\ \A k \in 1..Len(todos) :
                todos[k].id # last'.id => todos[k] \in Range(todos')]_vars

\* C11 case: the second of two listed items was removed.
C11_Witness ==
    /\ last.kind = "removeAck" /\ last.ok
    /\ Len(todos) = 1
    /\ todos[1].id < last.id

\* The step answers the outstanding request i from the gateway's routes.
Answered(i) ==
    /\ i \in 1..Len(inflight)
    /\ Len(inflight') = Len(inflight)
    /\ inflight[i].st = "sent"
    /\ inflight'[i].st \notin {"sent", "StoreUnavailable"}

\* A Delete of id x has been answered with success.
DeletedBefore(x) ==
    \E j \in 1..Len(inflight) :
        inflight[j].kind = "remove" /\ inflight[j].id = x /\ inflight[j].st = "ok"

\* C12: when the gateway answers an Update or a Delete of an id that
\* matches no item, the answer is NotFound and the collection stays as it
\* was, and when the id matches an item the request succeeds; an id matches
\* no item exactly when it was never assigned or a Delete of it has already
\* succeeded, so that of several Deletes of one id, outstanding together or
\* one after the other, only the first answered succeeds.
C12_NotFound ==
    [][\A i \in 1..Len(inflight) :
          (Answered(i) /\ inflight[i].kind \in {"toggle", "remove"}) =>
             LET ex == inflight'[i] IN
             /\ IF \E k \in 1..Len(store) : store[k].id = ex.id
                THEN ex.st = "ok"
                ELSE ex.st = "NotFound" /\ store' = store
             /\ ex.id >= nextId => ex.st = "NotFound" /\ store' = store
             /\ DeletedBefore(ex.id) => ex.st = "NotFound" /\ store' = store
             /\ (ex.id < nextId /\ ~DeletedBefore(ex.id)) => ex.st = "ok"
             /\ (ex.st = "ok" /\ ex.kind = "remove") =>
                   /\ ex.id \notin Ids(store')
                   /\ Len(store') = Len(store) - 1]_vars

\* C12 case: two Deletes of one id were outstanding together; the one
\* answered first succeeded and the other was answered NotFound, with an
\* item left in the collection.
C12_Witness ==
    \E i, j \in 1..Len(inflight) :
        /\ i # j
        /\ inflight[i].kind = "remove" /\ inflight[j].kind = "remove"
        /\ inflight[i].id = inflight[j].id
        /\ inflight[i].st = "ok" /\ inflight[j].st = "NotFound"
        /\ inflight[i].id \notin Ids(store)
        /\ store # <<>>

Targets(op) == IF op.kind = "clear" THEN Range(op.snap) ELSE {op.id}

\* The operation's request (for a sweep, its last Delete) has succeeded and
\* its final continuation is ready to run.
ReadyOk(op) ==
    /\ op.kind \in {"toggle", "remove", "clear"}
    /\ op.st = "ok"
    /\ op.kind = "clear" => Len(op.queue) = 1

\* todos after the final continuation of a successful operation
Reconciled(ts, op) ==
    IF op.kind = "toggle" THEN ToggleReconcile(ts, op.resp[1])
    ELSE IF op.kind = "remove" THEN RemoveReconcile(ts, op.id)
    ELSE ClearReconcile(ts)

\* C14: two successful operations in flight together on different items
\* (Toggle, Remove, or a sweep against a Toggle or Remove of an item outside
\* its snapshot) give the same local list whichever is reconciled first.
C14_ReconcileCommutes ==
    \A i, j \in 1..Len(inflight) :
        (/\ i < j
         /\ ReadyOk(inflight[i]) /\ ReadyOk(inflight[j])
         /\ Targets(inflight[i]) \cap Targets(inflight[j]) = {})
        => Reconciled(Reconciled(todos, inflight[i]), inflight[j])
             = Reconciled(Reconciled(todos, inflight[j]), inflight[i])

IsPrefix(p, q) == Len(p) <= Len(q) /\ p = SubSeq(q, 1, Len(p))

\* ids of the completed rows of ts, in the order of ts
CompletedIds(ts) ==
    LET cs == SelectSeq(ts, LAMBDA t : t.completed)
    IN [k \in 1..Len(cs) |-> cs[k].id]

\* C15: a sweep sends one Delete for each id completed in the local list
\* when it was invoked, in list order, and for no other id; it sends the
\* next Delete only when the previous one has succeeded or failed, and a
\* failed one does not end the loop; invoked with no completed item it
\* sends nothing and changes nothing.
C15_SweepDeletes ==
    [][/\ \A i \in 1..Len(inflight') :
            inflight'[i].kind = "clear" =>
               /\ inflight'[i].issued # <<>>
               /\ IsPrefix(inflight'[i].issued, inflight'[i].snap)
               /\ Head(inflight'[i].queue)
                     = inflight'[i].issued[Len(inflight'[i].issued)]
       /\ last'.kind = "clearStart" =>
            LET i == last'.idx IN
               /\ i \in 1..Len(inflight')
               /\ inflight'[i].snap = CompletedIds(todos)
               /\ inflight'[i].issued = <<CompletedIds(todos)[1]>>
               /\ inflight'[i].st = "sent"
       /\ last'.kind = "clearNext" =>
            LET i == last'.idx IN
               /\ i \in 1..Len(inflight)
               /\ inflight[i].st # "sent"
               /\ inflight'[i].snap = inflight[i].snap
               /\ Len(inflight'[i].issued) = Len(inflight[i].issued) + 1
               /\ inflight'[i].st = "sent"
       /\ \A i \in 1..Len(inflight) :
            (inflight[i].kind = "clear" /\ last'.idx = i
                /\ Len(inflight') < Len(inflight)) =>
               /\ inflight[i].st # "sent"
               /\ inflight[i].issued = inflight[i].snap
       /\ \A i \in 1..Len(inflight) :
            (inflight[i].kind = "clear" /\ Len(inflight') = Len(inflight)
                /\ inflight'[i].issued # inflight[i].issued) =>
               last'.kind = "clearNext" /\ last'.idx = i
       /\ (last'.kind \in {"clearEmpty", "clearStart"} /\ CompletedIds(todos) = <<>>)
             => UNCHANGED <<todos, loading, error, filter, newTitle,
                            inflight, sent, store>>]_vars

\* C15 case: the first Delete of a two-item sweep failed and the second was
\* sent.
C15_Witness ==
    /\ last.kind = "clearNext" /\ ~last.ok
    /\ Len(inflight[last.idx].snap) = 2
    /\ inflight[last.idx].issued = inflight[last.idx].snap
    /\ inflight[last.idx].st = "sent"

SweepInFlight(fl) == \E i \in 1..Len(fl) : fl[i].kind = "clear"

\* C16: a sweep clears error when it starts and none of its own steps sets
\* it, whether its Deletes succeed or fail: while a sweep is in flight,
\* error becomes non-empty only by the failure of another operation; the
\* sweep's final continuation sets loading to false.
C16_SweepSwallowsErrors ==
    [][/\ last'.kind = "clearStart" => (error' = NoError /\ loading')
       /\ last'.kind \in {"clearNext", "clearDone"} => error' = error
       /\ last'.kind = "clearDone" => ~loading'
       /\ (SweepInFlight(inflight) /\ error = NoError /\ error' # NoError)
             => /\ last'.kind \in {"addAck", "toggleAck", "removeAck"}
                /\ ~last'.ok]_vars

\* C16 case: a sweep ended on a failed Delete with error still empty.
C16_Witness ==
    /\ last.kind = "clearDone" /\ ~last.ok
    /\ error = NoError
    /\ ~loading
    /\ hist.failed

StartKinds == {"loadStart", "addStart", "toggleStart", "removeStart", "clearStart"}
AckKinds == {"loadAck", "addAck", "toggleAck", "removeAck", "clearDone"}

\* C17: the step that sends an operation's request sets loading and clears
\* error; an error that is set is cleared only by the start of an operation
\* or by a successful reconciliation, and a filter change, typing, a submit
\* or sweep that returns early, and the gateway's own steps leave it as it is.
C17_ErrorLifetime ==
    [][/\ last'.kind \in StartKinds =>
             /\ loading' /\ error' = NoError
             /\ Len(inflight') = Len(inflight) + 1
             /\ inflight'[Len(inflight')].st = "sent"
       /\ (error # NoError /\ error' = NoError) =>
             \/ last'.kind \in StartKinds
             \/ last'.kind \in AckKinds /\ last'.ok
       /\ last'.kind \in {"other", "addBlank", "clearEmpty", "clearNext"}
             => error' = error /\ loading' = loading]_vars

\* C17 case: with nothing in flight, an error set by a failed operation is
\* still shown after the filter was changed and a state setter ran last.
C17_Witness ==
    /\ error # NoError
    /\ filter # "all"
    /\ last.kind = "other"
    /\ inflight = <<>>

\* C18: no two items of the local list have the same id.
C18_UniqueIds ==
    \A j, k \in 1..Len(todos) : j # k => todos[j].id # todos[k].id

\* C18 case: a created item has joined the loaded ones.
C18_Witness ==
    /\ last.kind = "addAck" /\ last.ok
    /\ Len(todos) >= 3

\* C19: once a successful Remove of an id, or a sweep whose snapshot held
\* the id, has been reconciled, no later step turns the id from absent to
\* present in the local list, and the successful acknowledgment of a Toggle
\* of that item that was suspended at that moment leaves the list without it.
C19_NoResurrection ==
    [][\A x \in hist.removed :
          /\ x \notin Ids(todos) => x \notin Ids(todos')
          /\ \A i \in 1..Len(inflight) :
                (/\ last'.kind = "toggleAck" /\ last'.ok /\ last'.idx = i
                 /\ inflight[i].id = x /\ inflight[i].late)
                => x \notin Ids(todos')]_vars
====
